---------------------------- MODULE Spec2Model ----------------------------
(* A model of the zenOut session player (src/src/App.tsx): the App          *)
(* component's React state, its refs, its three audio handles, its timers   *)
(* and its effects.                                                         *)
(*                                                                          *)
(* Rendering: an event handler or timer callback queues state updates,      *)
(* React commits them in one render, and the passive effects whose          *)
(* dependencies changed run afterwards (FlushEffects).  `deps` holds the    *)
(* dependency values of the last effect run, so a committed state whose     *)
(* effects have not run yet is a state with EffectsPending.                 *)
(*                                                                          *)
(* Time: every timer is a countdown in milliseconds (None when not set).    *)
(* A timer callback fires when its countdown is the smallest one; the time  *)
(* that passes until then is taken off the other countdowns.  Timers that   *)
(* are due at the same millisecond fire in any order.                       *)
EXTENDS Integers, Naturals, Sequences, FiniteSets, TLC

VARIABLES
  started, phaseIndex, phaseDurationMs, remaining, ambienceOn, \* useState
  phaseIndexRef, isTransitioningRef,                           \* useRef
  audio, omAudio, chimeAudio,                                  \* audio handles
  tickTimer, omStartTimeout, omInterval, fadeTimeout, fadeInterval, fadeStep,
  deps,                                                        \* last effect deps
  ticks, phaseElapsed, chimeFires, humFires, omOwnerActive, idleFired,
  updaterEvals,             \* evaluations of the updater in the last tick, else 0
  ambPlayBy,                \* who called play() on the ambience in the last step
  ambienceRejected,         \* a play() of the ambience was rejected in this run
  sinceHum,                 \* ms since the last playOm whose fade has not ended
  cycleElapsed,             \* BreathPrompt: ms since cycleTime was set, None for null
  cycleStartTimeout,        \* BreathPrompt: the startCycle timeout
  bpCycleTime, bpNow,       \* BreathPrompt on its own: cycleTime (0 for null), now
  bpText                    \* and the text it has rendered

appVars == << started, phaseIndex, phaseDurationMs, remaining, ambienceOn,
           phaseIndexRef, isTransitioningRef, audio, omAudio, chimeAudio,
           tickTimer, omStartTimeout, omInterval, fadeTimeout, fadeInterval,
           fadeStep, deps, ticks, phaseElapsed, chimeFires,
           humFires, omOwnerActive, idleFired, updaterEvals,
           ambPlayBy, ambienceRejected, sinceHum, cycleElapsed,
           cycleStartTimeout >>
bpVars == << bpCycleTime, bpNow, bpText >>
vars == << appVars, bpVars >>

(* ---------- Config ---------- *)
INHALE_MS == 4000
EXHALE_MS == 8000
CYCLE_MS == INHALE_MS + EXHALE_MS
CycleStartDelayAsCommented == 4000
CycleStartDelayMs == 0
PollMs == 100
NumPhases == 5
DefaultPhaseMs == 60000
TickMs == 1000
OmDelayMs == 4000
OmPeriodMs == 12000
fadeDuration == 1000
fadeStart == 7000
fadeSteps == 20
initialVolume == 20        \* 0.2, in hundredths
ChimeVolume == 10          \* 0.1, in hundredths

None == 0 - 1              \* a timer that is not set
Minutes == {2, 5, 10}

Max(a, b) == IF a >= b THEN a ELSE b
Min(a, b) == IF a <= b THEN a ELSE b

PerPhase(minutes) ==
  IF minutes = 2 THEN 24000 ELSE IF minutes = 5 THEN 60000 ELSE 120000

(* ---------- derived values of a render ---------- *)
IsCompleteOf(s, p, r) == s /\ p = NumPhases - 1 /\ r = 0
isComplete == IsCompleteOf(started, phaseIndex, remaining)

\* progress * phaseDurationMs (the division is left out to stay in integers)
ProgressTimesDuration(p, r, d) ==
  Min(100 * d, p * (100 \div NumPhases) * d + (d - r) * (100 \div NumPhases))

CurrentDeps ==
  [started |-> started, phaseIndex |-> phaseIndex,
   phaseDurationMs |-> phaseDurationMs, ambienceOn |-> ambienceOn,
   isComplete |-> isComplete]

EffectsPending == deps # CurrentDeps

(* ---------- audio handles ---------- *)
NoAudio == [exists |-> FALSE, paused |-> TRUE, pos |-> 0, muted |-> FALSE, vol |-> 100]

\* pause(); currentTime = 0
PauseReset(h) == IF h.exists THEN [h EXCEPT !.paused = TRUE, !.pos = 0] ELSE h

\* play(): the host starts playback, or rejects it and the handle stays as it is
Play(h, allowed) == IF h.exists /\ allowed THEN [h EXCEPT !.paused = FALSE] ELSE h

\* a playing handle's position moves on when time passes
Advance(h, d) == IF h.exists /\ ~h.paused /\ d > 0 THEN [h EXCEPT !.pos = 1] ELSE h

(* ---------- timers ---------- *)
ActiveTimers ==
  {t \in {tickTimer, omStartTimeout, omInterval, fadeTimeout, fadeInterval,
           cycleStartTimeout} : t # None}

IsDue(t) == t # None /\ \A u \in ActiveTimers : t <= u

After(t, d) == IF t = None THEN None ELSE t - d


(* ---------- Init: the component after its first render and effects ---------- *)
InitApp ==
  /\ started = FALSE
  /\ phaseIndex = 0
  /\ phaseDurationMs = DefaultPhaseMs
  /\ remaining = DefaultPhaseMs
  /\ ambienceOn = TRUE
  /\ phaseIndexRef = 0
  /\ isTransitioningRef = FALSE
  /\ audio = NoAudio
  /\ omAudio = NoAudio
  /\ chimeAudio = NoAudio
  /\ tickTimer = None
  /\ omStartTimeout = None
  /\ omInterval = None
  /\ fadeTimeout = None
  /\ fadeInterval = None
  /\ fadeStep = 0
  /\ deps = [started |-> FALSE, phaseIndex |-> 0, phaseDurationMs |-> DefaultPhaseMs,
             ambienceOn |-> TRUE, isComplete |-> FALSE]
  /\ ticks = 0
  /\ phaseElapsed = 0
  /\ chimeFires = 0
  /\ humFires = 0
  /\ omOwnerActive = FALSE
  /\ idleFired = FALSE
  /\ updaterEvals = 0
  /\ ambPlayBy = "none"
  /\ ambienceRejected = FALSE
  /\ sinceHum = None
  /\ cycleElapsed = None
  /\ cycleStartTimeout = None

(* ---------- user events ---------- *)
\* startWithMinutes: the state updates, then the ambience handle is created,
\* its mute flag set and play() attempted
StartWithMinutes(minutes, allowed) ==
  /\ ~started
  /\ ~EffectsPending
  /\ phaseDurationMs' = PerPhase(minutes)
  /\ phaseIndex' = 0
  /\ remaining' = PerPhase(minutes)
  /\ started' = TRUE
  /\ audio' = Play([audio EXCEPT !.exists = TRUE, !.muted = ~ambienceOn], allowed)
  /\ ticks' = 0
  /\ chimeFires' = 0
  /\ idleFired' = FALSE
  /\ updaterEvals' = 0
  /\ UNCHANGED bpVars
  /\ UNCHANGED << cycleElapsed, cycleStartTimeout >>
  /\ UNCHANGED sinceHum
  /\ ambPlayBy' = "user"
  /\ ambienceRejected' = (audio.paused /\ ~allowed)
  /\ UNCHANGED << ambienceOn, phaseIndexRef, isTransitioningRef, omAudio, chimeAudio,
                  tickTimer, omStartTimeout, omInterval, fadeTimeout, fadeInterval,
                  fadeStep, deps, phaseElapsed, humFires, omOwnerActive >>

\* the onClick of the Back button and of the Return to Start button
ReturnHandler ==
  /\ started' = FALSE
  /\ phaseIndex' = 0
  /\ remaining' = DefaultPhaseMs
  /\ audio' = PauseReset(audio)
  /\ idleFired' = FALSE
  /\ updaterEvals' = 0
  /\ UNCHANGED bpVars
  /\ UNCHANGED << cycleElapsed, cycleStartTimeout >>
  /\ UNCHANGED sinceHum
  /\ ambPlayBy' = "none"
  /\ ambienceRejected' = FALSE
  /\ UNCHANGED << phaseDurationMs, ambienceOn, phaseIndexRef, isTransitioningRef,
                  omAudio, chimeAudio, tickTimer, omStartTimeout, omInterval,
                  fadeTimeout, fadeInterval, fadeStep, deps, ticks,
                  phaseElapsed, chimeFires, humFires, omOwnerActive >>

\* Back is rendered while started && !isComplete
Back ==
  /\ started /\ ~isComplete
  /\ ~EffectsPending
  /\ ReturnHandler

\* Return to Start is rendered while isComplete
ReturnToStart ==
  /\ isComplete
  /\ ~EffectsPending
  /\ ReturnHandler

\* the mute button is rendered while started && !isComplete
ToggleMute ==
  /\ started /\ ~isComplete
  /\ ~EffectsPending
  /\ ambienceOn' = ~ambienceOn
  /\ updaterEvals' = 0
  /\ UNCHANGED bpVars
  /\ UNCHANGED << cycleElapsed, cycleStartTimeout >>
  /\ UNCHANGED sinceHum
  /\ ambPlayBy' = "none"
  /\ UNCHANGED ambienceRejected
  /\ UNCHANGED << started, phaseIndex, phaseDurationMs, remaining, phaseIndexRef,
                  isTransitioningRef, audio, omAudio, chimeAudio, tickTimer,
                  omStartTimeout, omInterval, fadeTimeout, fadeInterval, fadeStep,
                  deps, ticks, phaseElapsed, chimeFires, humFires,
                  omOwnerActive, idleFired >>

(* ---------- the passage of time up to a timer callback ---------- *)
\* d milliseconds pass: playing handles move on, the phase's elapsed time grows
ElapseBase(d) ==
  /\ audio' = Advance(audio, d)
  /\ chimeAudio' = Advance(chimeAudio, d)
  /\ phaseElapsed' = IF started /\ ~isComplete THEN phaseElapsed + d ELSE phaseElapsed
  /\ idleFired' = (idleFired \/ ~started)

\* the same, seen from a callback other than BreathPrompt's startCycle
Elapse(d) ==
  /\ ElapseBase(d)
  /\ cycleElapsed' = IF cycleElapsed = None THEN None ELSE cycleElapsed + d
  /\ cycleStartTimeout' = After(cycleStartTimeout, d)

(* ---------- the phase timer ---------- *)
\* the setRemaining updater without the isTransitioning guard
TickUpdaterNoGuard(prev, currentPhase, transitioning) ==
  IF prev <= 1000
    THEN [result |-> Max(0, prev - 1000),
          transitioning |-> transitioning \/ currentPhase < NumPhases - 1,
          advance |-> IF currentPhase < NumPhases - 1 THEN 1 ELSE 0]
    ELSE [result |-> prev - 1000, transitioning |-> transitioning, advance |-> 0]

\* one evaluation of the setRemaining updater: the new remaining, the new
\* isTransitioningRef and the number of setPhaseIndex(p => p + 1) it queued
TickUpdater(prev, currentPhase, transitioning) ==
  IF prev <= 1000 /\ ~transitioning
    THEN [result |-> Max(0, prev - 1000),
          transitioning |-> currentPhase < NumPhases - 1,
          advance |-> IF currentPhase < NumPhases - 1 THEN 1 ELSE 0]
    ELSE [result |-> prev - 1000, transitioning |-> transitioning, advance |-> 0]

\* the interval callback; React evaluates the updater once, or twice with the
\* same prev when it double-invokes updaters (StrictMode)
Tick(evals) ==
  /\ ~EffectsPending
  /\ IsDue(tickTimer)
  /\ LET d == tickTimer
         u1 == TickUpdater(remaining, phaseIndexRef, isTransitioningRef)
         u2 == TickUpdater(remaining, phaseIndexRef, u1.transitioning)
         last == IF evals = 1 THEN u1 ELSE u2
         adv == u1.advance + (IF evals = 1 THEN 0 ELSE u2.advance)
     IN /\ remaining' = last.result
        /\ isTransitioningRef' = last.transitioning
        /\ phaseIndex' = phaseIndex + adv
        /\ tickTimer' = TickMs
        /\ omStartTimeout' = After(omStartTimeout, d)
        /\ omInterval' = After(omInterval, d)
        /\ fadeTimeout' = After(fadeTimeout, d)
        /\ fadeInterval' = After(fadeInterval, d)
        /\ omAudio' = Advance(omAudio, d)
        /\ Elapse(d)
        /\ ticks' = IF isComplete THEN ticks ELSE ticks + 1
  /\ updaterEvals' = evals
  /\ UNCHANGED bpVars
  /\ sinceHum' = IF sinceHum = None THEN None ELSE sinceHum + tickTimer
  /\ ambPlayBy' = "none"
  /\ UNCHANGED ambienceRejected
  /\ UNCHANGED << started, phaseDurationMs, ambienceOn, phaseIndexRef,
                  fadeStep, deps, chimeFires, humFires, omOwnerActive >>

(* ---------- the hum (OM) cue ---------- *)
\* playOm: restart the hum at volume 0.2, clear the previous fade timers and
\* schedule this firing's fade
PlayOm(d, allowed) ==
  /\ omAudio' = Play([Advance(omAudio, d) EXCEPT !.exists = TRUE, !.pos = 0,
                                                !.vol = initialVolume], allowed)
  /\ fadeTimeout' = fadeStart
  /\ fadeInterval' = None
  /\ fadeStep' = 0
  /\ humFires' = humFires + 1
  /\ omOwnerActive' = TRUE
  /\ sinceHum' = 0

\* the startOmCycle timeout: playOmForExhale plays once and starts the interval
OmStartFire(allowed) ==
  /\ ~EffectsPending
  /\ IsDue(omStartTimeout)
  /\ LET d == omStartTimeout
     IN /\ PlayOm(d, allowed)
        /\ omStartTimeout' = None
        /\ omInterval' = OmPeriodMs
        /\ tickTimer' = After(tickTimer, d)
        /\ Elapse(d)
  /\ updaterEvals' = 0
  /\ UNCHANGED bpVars
  /\ ambPlayBy' = "none"
  /\ UNCHANGED ambienceRejected
  /\ UNCHANGED << started, phaseIndex, phaseDurationMs, remaining, ambienceOn,
                  phaseIndexRef, isTransitioningRef, deps, ticks,
                  chimeFires >>

\* the omInterval callback
OmIntervalFire(allowed) ==
  /\ ~EffectsPending
  /\ IsDue(omInterval)
  /\ LET d == omInterval
     IN /\ PlayOm(d, allowed)
        /\ omInterval' = OmPeriodMs
        /\ tickTimer' = After(tickTimer, d)
        /\ omStartTimeout' = After(omStartTimeout, d)
        /\ Elapse(d)
  /\ updaterEvals' = 0
  /\ UNCHANGED bpVars
  /\ ambPlayBy' = "none"
  /\ UNCHANGED ambienceRejected
  /\ UNCHANGED << started, phaseIndex, phaseDurationMs, remaining, ambienceOn,
                  phaseIndexRef, isTransitioningRef, deps, ticks,
                  chimeFires >>

\* the _fadeTimeout callback: start the fade interval
FadeTimeoutFire ==
  /\ ~EffectsPending
  /\ IsDue(fadeTimeout)
  /\ LET d == fadeTimeout
     IN /\ fadeTimeout' = None
        /\ fadeStep' = 0
        /\ fadeInterval' = fadeDuration \div fadeSteps
        /\ omAudio' = Advance(omAudio, d)
        /\ tickTimer' = After(tickTimer, d)
        /\ omStartTimeout' = After(omStartTimeout, d)
        /\ omInterval' = After(omInterval, d)
        /\ Elapse(d)
  /\ updaterEvals' = 0
  /\ UNCHANGED bpVars
  /\ sinceHum' = IF sinceHum = None THEN None ELSE sinceHum + fadeTimeout
  /\ ambPlayBy' = "none"
  /\ UNCHANGED ambienceRejected
  /\ UNCHANGED << started, phaseIndex, phaseDurationMs, remaining, ambienceOn,
                  phaseIndexRef, isTransitioningRef, deps, ticks,
                  chimeFires, humFires, omOwnerActive >>

\* a fade that reaches 0 after half the steps
FadeVolumeTwice(step) == Max(0, (initialVolume * (fadeSteps - 2 * step)) \div fadeSteps)

\* audio.volume after fade step `step`, in hundredths
FadeVolume(step) == Max(0, (initialVolume * (fadeSteps - step)) \div fadeSteps)

\* the _fadeInterval callback: one fade step; the last one stops the hum
FadeIntervalFire ==
  /\ ~EffectsPending
  /\ IsDue(fadeInterval)
  /\ LET d == fadeInterval
         step == fadeStep + 1
         h == [Advance(omAudio, d) EXCEPT !.vol = FadeVolume(step)]
     IN /\ IF step >= fadeSteps
             THEN /\ fadeInterval' = None
                  /\ fadeStep' = 0
                  /\ omAudio' = PauseReset([h EXCEPT !.vol = 0])
             ELSE /\ fadeInterval' = fadeDuration \div fadeSteps
                  /\ fadeStep' = step
                  /\ omAudio' = h
        /\ tickTimer' = After(tickTimer, d)
        /\ omStartTimeout' = After(omStartTimeout, d)
        /\ omInterval' = After(omInterval, d)
        /\ fadeTimeout' = After(fadeTimeout, d)
        /\ Elapse(d)
  /\ updaterEvals' = 0
  /\ UNCHANGED bpVars
  /\ sinceHum' = IF sinceHum = None \/ fadeStep + 1 >= fadeSteps THEN None
                  ELSE sinceHum + fadeInterval
  /\ ambPlayBy' = "none"
  /\ UNCHANGED ambienceRejected
  /\ UNCHANGED << started, phaseIndex, phaseDurationMs, remaining, ambienceOn,
                  phaseIndexRef, isTransitioningRef, deps, ticks,
                  chimeFires, humFires, omOwnerActive >>

(* ---------- BreathPrompt ---------- *)
\* JavaScript's %: the result has the sign of the dividend
JsRem(a, n) == IF a >= 0 THEN a % n ELSE 0 - ((0 - a) % n)

BreathTextAtInclusive(e) ==
  IF JsRem(e, 12000) <= 4000 THEN "breathe in..." ELSE "breathe out..."

\* the text for `e` ms between cycleTime and now: (e / 1000) % 12 < 4
BreathTextAt(e) ==
  IF JsRem(e, 12000) < 4000 THEN "breathe in..." ELSE "breathe out..."

\* the text BreathPrompt renders from its cycleTime (0 for null) and now
BreathText(cycleTime, now) ==
  IF cycleTime = 0 THEN "breathe in..." ELSE BreathTextAt(now - cycleTime)

\* BreathPrompt is rendered inside the session screen only
PromptMounted(d) == d.started /\ ~d.isComplete

\* the startCycle timeout callback: setCycleTime(Date.now())
CycleStartFire ==
  /\ ~EffectsPending
  /\ IsDue(cycleStartTimeout)
  /\ LET d == cycleStartTimeout
     IN /\ cycleElapsed' = 0
        /\ cycleStartTimeout' = None
        /\ tickTimer' = After(tickTimer, d)
        /\ omStartTimeout' = After(omStartTimeout, d)
        /\ omInterval' = After(omInterval, d)
        /\ fadeTimeout' = After(fadeTimeout, d)
        /\ fadeInterval' = After(fadeInterval, d)
        /\ omAudio' = Advance(omAudio, d)
        /\ sinceHum' = IF sinceHum = None THEN None ELSE sinceHum + d
        /\ ElapseBase(d)
  /\ updaterEvals' = 0
  /\ UNCHANGED bpVars
  /\ ambPlayBy' = "none"
  /\ UNCHANGED << started, phaseIndex, phaseDurationMs, remaining, ambienceOn,
                  phaseIndexRef, isTransitioningRef, deps, ticks, fadeStep,
                  chimeFires, humFires, omOwnerActive, ambienceRejected >>

\* cycleTime after BreathPrompt's effects: null when unmounted; on a mount or
\* a change of phase the cleanup of a phase 2-5 effect sets null and the phase
\* 1 branch sets Date.now()
PromptAnchorAfterEffects(old, cur) ==
  IF ~PromptMounted(cur) THEN None
  ELSE IF ~PromptMounted(old) THEN (IF cur.phaseIndex = 0 THEN 0 ELSE None)
  ELSE IF (old.phaseIndex # cur.phaseIndex)
         THEN IF cur.phaseIndex = 0 THEN 0
              ELSE IF old.phaseIndex # 0 THEN None ELSE cycleElapsed
  ELSE cycleElapsed

\* the startCycle timeout after BreathPrompt's effects
PromptTimeoutAfterEffects(old, cur) ==
  IF ~PromptMounted(cur) THEN None
  ELSE IF ~PromptMounted(old) \/ (old.phaseIndex # cur.phaseIndex)
         THEN IF cur.phaseIndex = 0 THEN None ELSE CycleStartDelayMs
  ELSE cycleStartTimeout

(* ---------- the effects ---------- *)
\* dependency arrays, compared between the last effect run and this render
CompleteChanged(old, cur) == old.isComplete # cur.isComplete
AmbienceDepsChanged(old, cur) ==
  old.started # cur.started \/ old.isComplete # cur.isComplete
    \/ old.ambienceOn # cur.ambienceOn
PhaseIndexChanged(old, cur) == old.phaseIndex # cur.phaseIndex
ChimeDepsAlsoComplete(old, cur) ==
  old.phaseIndex # cur.phaseIndex \/ old.started # cur.started
    \/ old.isComplete # cur.isComplete
ChimeDepsChanged(old, cur) ==
  old.phaseIndex # cur.phaseIndex \/ old.started # cur.started
OmDepsChanged(old, cur) ==
  old.started # cur.started \/ old.phaseIndex # cur.phaseIndex
    \/ old.isComplete # cur.isComplete
TimerDepsAlsoAmbience(old, cur) ==
  old.started # cur.started \/ old.phaseDurationMs # cur.phaseDurationMs
    \/ old.ambienceOn # cur.ambienceOn
TimerDepsChanged(old, cur) ==
  old.started # cur.started \/ old.phaseDurationMs # cur.phaseDurationMs
ResetDepsChanged(old, cur) ==
  old.phaseIndex # cur.phaseIndex \/ old.started # cur.started
    \/ old.phaseDurationMs # cur.phaseDurationMs

\* "Stop all audio when session completes", applied to each handle
StopAllAudioNoRewind(h) == IF h.exists THEN [h EXCEPT !.paused = TRUE] ELSE h
StopAllAudio(h) == PauseReset(h)

\* "Ensure ambience continues playing during the session"
EnsureAmbience(h, allowed) ==
  IF started /\ ~isComplete /\ h.exists /\ ambienceOn /\ h.paused
    THEN Play(h, allowed) ELSE h

\* "Play chime when phase changes"
ChimeEffect(h, allowed) ==
  IF started
    THEN Play([h EXCEPT !.exists = TRUE, !.pos = 0, !.vol = ChimeVolume], allowed)
    ELSE h

\* the OM effect got past its early return in the render with dependencies d
OmEffectActive(d) == d.started /\ d.phaseIndex # 0 /\ ~d.isComplete

\* the OM effect's cleanup of startOmCycle and omInterval
OmCleanupKeepsTimer(t, old) == t
OmCleanupTimer(t, old) == IF OmEffectActive(old) THEN None ELSE t

\* the phase timer effect's cleanup
TimerCleanupKeepsInterval(t, old) == t
TimerCleanup(t, old) == IF old.started THEN None ELSE t

\* "Reset remaining time when phase changes"
ResetRemainingNever == remaining
ResetRemaining == IF started THEN phaseDurationMs ELSE remaining

\* the ensure-ambience effect reaches its play() call
EnsureAmbienceCalls(h) == started /\ ~isComplete /\ h.exists /\ ambienceOn /\ h.paused

\* the ambience mute effect reaches its play() call
AmbienceMuteCalls(h) == h.exists /\ ambienceOn /\ started /\ ~isComplete

\* the render whose effects run was caused by a click (start, return, mute)
\* and not by the phase timer
UserDriven(old, cur) == old.started # cur.started \/ old.ambienceOn # cur.ambienceOn

\* "Ambience mute/unmute"
AmbienceMute(h, allowed) ==
  IF ~h.exists THEN h
  ELSE LET m == [h EXCEPT !.muted = ~ambienceOn]
       IN IF ambienceOn /\ started /\ ~isComplete THEN Play(m, allowed) ELSE m

\* the passive effects of the committed render: the cleanups of the effects
\* whose dependencies changed, then their bodies in the order of declaration
FlushEffects(allowed) ==
  /\ EffectsPending
  /\ LET old == deps
         cur == CurrentDeps
         om1 == IF OmDepsChanged(old, cur) /\ OmEffectActive(old)
                  THEN PauseReset(omAudio) ELSE omAudio
         stop == CompleteChanged(old, cur) /\ isComplete
         a1 == IF stop THEN StopAllAudio(audio) ELSE audio
         om2 == IF stop THEN StopAllAudio(om1) ELSE om1
         c1 == IF stop THEN StopAllAudio(chimeAudio) ELSE chimeAudio
         a2 == IF AmbienceDepsChanged(old, cur) THEN EnsureAmbience(a1, allowed) ELSE a1
         c2 == IF ChimeDepsChanged(old, cur) THEN ChimeEffect(c1, allowed) ELSE c1
         a3 == IF AmbienceDepsChanged(old, cur) THEN AmbienceMute(a2, allowed) ELSE a2
     IN /\ audio' = a3
        /\ omAudio' = om2
        /\ chimeAudio' = c2
        /\ phaseIndexRef' = IF PhaseIndexChanged(old, cur) THEN phaseIndex ELSE phaseIndexRef
        /\ isTransitioningRef' =
             IF PhaseIndexChanged(old, cur) THEN FALSE ELSE isTransitioningRef
        /\ omStartTimeout' =
             IF OmDepsChanged(old, cur)
               THEN IF OmEffectActive(cur) THEN OmDelayMs
                    ELSE OmCleanupTimer(omStartTimeout, old)
               ELSE omStartTimeout
        /\ omInterval' =
             IF OmDepsChanged(old, cur) THEN OmCleanupTimer(omInterval, old)
             ELSE omInterval
        /\ tickTimer' =
             IF TimerDepsChanged(old, cur)
               THEN IF started THEN TickMs ELSE TimerCleanup(tickTimer, old)
               ELSE tickTimer
        /\ remaining' = IF ResetDepsChanged(old, cur) THEN ResetRemaining ELSE remaining
        /\ deps' = cur
        /\ chimeFires' = IF ChimeDepsChanged(old, cur) /\ started
                           THEN chimeFires + 1 ELSE chimeFires
        /\ humFires' = IF OmDepsChanged(old, cur) THEN 0 ELSE humFires
        /\ phaseElapsed' = IF OmDepsChanged(old, cur) THEN 0 ELSE phaseElapsed
        /\ omOwnerActive' = IF OmDepsChanged(old, cur) /\ OmEffectActive(old)
                              THEN FALSE ELSE omOwnerActive
        /\ LET ensure == AmbienceDepsChanged(old, cur) /\ EnsureAmbienceCalls(a1)
               mute == AmbienceDepsChanged(old, cur) /\ AmbienceMuteCalls(a2)
           IN /\ ambPlayBy' = IF ensure \/ mute
                                THEN IF UserDriven(old, cur) THEN "user" ELSE "phase"
                                ELSE "none"
              /\ ambienceRejected' =
                   (ambienceRejected \/ (~allowed /\ (ensure \/ (mute /\ a2.paused))))
  /\ updaterEvals' = 0
  /\ UNCHANGED bpVars
  /\ cycleElapsed' = PromptAnchorAfterEffects(deps, CurrentDeps)
  /\ cycleStartTimeout' = PromptTimeoutAfterEffects(deps, CurrentDeps)
  /\ UNCHANGED sinceHum
  /\ UNCHANGED << started, phaseIndex, phaseDurationMs, ambienceOn, fadeTimeout,
                  fadeInterval, fadeStep, ticks, idleFired >>

(* ---------- specification ---------- *)
Init ==
  /\ InitApp
  /\ bpCycleTime = 0
  /\ bpNow = 0
  /\ bpText = "none"

Next ==
  \/ \E minutes \in Minutes, allowed \in BOOLEAN : StartWithMinutes(minutes, allowed)
  \/ Back
  \/ ReturnToStart
  \/ ToggleMute
  \/ \E evals \in {1, 2} : Tick(evals)
  \/ \E allowed \in BOOLEAN : OmStartFire(allowed)
  \/ \E allowed \in BOOLEAN : OmIntervalFire(allowed)
  \/ FadeTimeoutFire
  \/ FadeIntervalFire
  \/ CycleStartFire
  \/ \E allowed \in BOOLEAN : FlushEffects(allowed)

Spec == Init /\ [][Next]_vars

(* ---------- BreathPrompt's text as a function of (cycleTime, now) ---------- *)
MaxCycles == 2
Anchors == {0, 1, 500, 12000}
Offsets == {0, 1, 3999, 4000, 4001, 5000, 7999, 11999}

InitBreath ==
  /\ InitApp
  /\ bpCycleTime \in Anchors
  /\ \E c \in 0..MaxCycles, o \in Offsets : bpNow = bpCycleTime + c * CYCLE_MS + o
  /\ bpText = "none"

\* a render of BreathPrompt
BreathRender ==
  /\ bpText = "none"
  /\ bpText' = BreathText(bpCycleTime, bpNow)
  /\ UNCHANGED << bpCycleTime, bpNow, appVars >>

\* the 100 ms interval: setNow(Date.now()) and the render it causes
BreathPoll ==
  /\ bpText # "none"
  /\ bpNow + PollMs <= bpCycleTime + (MaxCycles + 1) * CYCLE_MS
  /\ bpNow' = bpNow + PollMs
  /\ bpText' = BreathText(bpCycleTime, bpNow')
  /\ UNCHANGED << bpCycleTime, appVars >>

NextBreath ==
  \/ BreathRender
  \/ BreathPoll

SpecBreath == InitBreath /\ [][NextBreath]_vars

(* ---------- the claims ---------- *)
TicksPerPhase == phaseDurationMs \div TickMs

\* C1: in every reachable state of the session clock, before a start, during
\* a run, after completion and after returning to the start screen,
\* 0 <= remaining <= phaseDurationMs and 0 <= phaseIndex < 5.
C1_ClockBounds ==
  /\ 0 <= remaining /\ remaining <= phaseDurationMs
  /\ 0 <= phaseIndex /\ phaseIndex < NumPhases

\* C2: within a phase, after k ticks with k < D/1000 the remaining time is
\* D - 1000*k, and on the (D/1000)-th tick of a non-last phase the phase index
\* has advanced and (once the reset effect has run) remaining is D again: with
\* n ticks since the start, phaseIndex = n div (D/1000) and
\* remaining = D - 1000 * (n mod (D/1000)).
C2_RemainingCountsDown ==
  (started /\ ~EffectsPending /\ ~isComplete) =>
     /\ phaseIndex = ticks \div TicksPerPhase
     /\ remaining = phaseDurationMs - TickMs * (ticks % TicksPerPhase)

\* the 2-minute session after 24 ticks: phase index 1, remaining 24000
C2_Witness ==
  /\ started /\ ~EffectsPending
  /\ phaseDurationMs = 24000 /\ ticks = 24
  /\ phaseIndex = 1 /\ remaining = 24000

\* C3: within a run every step leaves the phase index or adds exactly 1 to it,
\* it never exceeds 4, it advances on every step in which remaining reaches 0
\* while a next phase exists, and on no other step, however often the tick
\* updater is evaluated.
C3_PhaseAdvance ==
  [][ (started /\ started') =>
        /\ phaseIndex' = phaseIndex \/ phaseIndex' = phaseIndex + 1
        /\ phaseIndex' <= NumPhases - 1
        /\ (remaining # 0 /\ remaining' = 0 /\ phaseIndex < NumPhases - 1)
             => phaseIndex' = phaseIndex + 1
        /\ phaseIndex' = phaseIndex + 1 => (remaining # 0 /\ remaining' = 0) ]_vars

\* the tick that ended phase 2 evaluated the updater twice and has advanced the
\* index by one; the guard is set and the phase-change effects have not run yet
C3_Witness ==
  /\ started /\ EffectsPending /\ updaterEvals = 2
  /\ isTransitioningRef /\ phaseIndexRef = 1 /\ phaseIndex = 2 /\ remaining = 0

\* C4: a run that is never cancelled is complete after 5*D/1000 ticks, and
\* once the completion effects have run the ambience, hum and chime handles
\* are all paused at position 0.
Stopped(h) == h.exists => (h.paused /\ h.pos = 0)

C4_Completion ==
  /\ (started /\ ticks = NumPhases * TicksPerPhase) => isComplete
  /\ (isComplete /\ ~EffectsPending) =>
       /\ ticks = NumPhases * TicksPerPhase
       /\ audio.exists /\ Stopped(audio) /\ Stopped(omAudio) /\ Stopped(chimeAudio)

\* the 2-minute session, complete after 120 ticks, all three handles created
C4_Witness ==
  /\ isComplete /\ ~EffectsPending
  /\ phaseDurationMs = 24000 /\ ticks = 120
  /\ omAudio.exists /\ chimeAudio.exists

\* C5: the overall progress value is non-decreasing across every successive
\* state of a run, and is 100 only in states where the session is complete.
Progress == ProgressTimesDuration(phaseIndex, remaining, phaseDurationMs)

C5_ProgressMonotone ==
  /\ [][ (started /\ started' /\ phaseDurationMs' = phaseDurationMs)
           => Progress' >= Progress ]_vars
  /\ [](Progress = 100 * phaseDurationMs => isComplete)

\* C6: once the user has returned to the start screen no tick and no other
\* timer callback changes phaseIndex, remaining or started until a new session
\* is started, and once the effects of the return have run the tick interval
\* and the hum schedule are cancelled.
C6_NoTickAfterReturn ==
  /\ [][ (~started /\ ~started') =>
           (phaseIndex' = phaseIndex /\ remaining' = remaining) ]_vars
  /\ []((~started /\ ~EffectsPending) =>
           (tickTimer = None /\ omStartTimeout = None /\ omInterval = None))

\* back on the start screen after a return in a hum phase, and a timer
\* callback has fired since
C6_Witness ==
  /\ ~started /\ ~EffectsPending
  /\ idleFired
  /\ phaseIndex = 0 /\ remaining = DefaultPhaseMs

\* C7: leaving a phase cancels the pending fade timeout and fade interval, so
\* that no fade callback runs once the phase whose hum scheduled it is no
\* longer the active phase.
FadeCallbackRan ==
  /\ humFires' = humFires
  /\ \/ fadeTimeout # None /\ fadeTimeout' = None
     \/ fadeInterval # None /\ (fadeStep' = fadeStep + 1 \/ fadeInterval' = None)

LeavingOmPhase ==
  EffectsPending /\ OmDepsChanged(deps, CurrentDeps) /\ OmEffectActive(deps)

C7_FadeTimersCancelled ==
  /\ [][ LeavingOmPhase => (fadeTimeout' = None /\ fadeInterval' = None) ]_vars
  /\ [][ FadeCallbackRan => omOwnerActive ]_vars

\* C8: the chime fires exactly once at the start of every phase of a run (so
\* phaseIndex + 1 times by the time the effects of a phase start have run),
\* also in a later run, and at no other time: the count changes only when a
\* run starts (back to 0) and in the effects of a render whose phase index or
\* started flag changed.
C8_ChimePerPhase ==
  /\ []((started /\ ~EffectsPending) => chimeFires = phaseIndex + 1)
  /\ [][ chimeFires' # chimeFires =>
           /\ started'
           /\ \/ (~started /\ chimeFires' = 0)
              \/ /\ chimeFires' = chimeFires + 1
                 /\ EffectsPending
                 /\ ChimeDepsChanged(deps, CurrentDeps) ]_vars

\* phase 1 of a run started after an earlier run that had reached a hum phase
C8_Witness ==
  /\ started /\ ~EffectsPending
  /\ phaseIndex = 0 /\ chimeFires = 1
  /\ omAudio.exists

\* C9: the n-th hum of a phase (n = 0, 1, ...) fires exactly 4 + 12n units
\* after the phase start, in a started, incomplete run in one of phases 2 to 5
\* whose effects have run, and no offset is skipped while the phase is active.
C9_HumOffsets ==
  /\ [][ humFires' = humFires + 1 =>
           /\ started /\ phaseIndex >= 1 /\ ~isComplete /\ ~EffectsPending
           /\ phaseElapsed' = OmDelayMs + humFires * OmPeriodMs ]_vars
  /\ []((started /\ phaseIndex >= 1 /\ ~isComplete /\ ~EffectsPending) =>
           phaseElapsed <= OmDelayMs + humFires * OmPeriodMs)
  /\ [](~started \/ phaseIndex = 0 \/ isComplete => humFires = 0 \/ EffectsPending)

\* the second hum of phase 3 has just fired, 16 units after the phase start
C9_Witness ==
  /\ started /\ ~EffectsPending
  /\ phaseIndex = 2 /\ humFires = 2 /\ phaseElapsed = 16000

\* C10: from session start until completion or a return to start, no step
\* pauses a playing ambience handle or puts it back to position 0.
C10_AmbienceKeepsPlaying ==
  [][ (started /\ started' /\ ~isComplete' /\ audio.exists /\ ~audio.paused) =>
        /\ ~audio'.paused
        /\ audio.pos > 0 => audio'.pos > 0 ]_vars

\* C11: a rejected play() of the ambience changes no session state (the clock
\* runs as in C2 in a run with a rejection), and after it play() is called on
\* the ambience handle only by the effects of a click, never by the effects of
\* a render that the phase timer caused.
C11_RejectedPlaySwallowed ==
  /\ []((ambienceRejected /\ started /\ ~EffectsPending /\ ~isComplete) =>
          /\ phaseIndex = ticks \div TicksPerPhase
          /\ remaining = phaseDurationMs - TickMs * (ticks % TicksPerPhase))
  /\ [][ ambienceRejected => ambPlayBy' # "phase" ]_vars

\* C12: on the start screen after a return the session state has its initial
\* values: started = false, phaseIndex = 0, remaining = 60000 and
\* phaseDurationMs = 60000.
C12_ReturnResetsSession ==
  ~started =>
     (phaseIndex = 0 /\ remaining = DefaultPhaseMs /\ phaseDurationMs = DefaultPhaseMs)

\* C13: the mute toggle and the effects that its render runs leave phaseIndex,
\* remaining, phaseDurationMs, started, the tick interval and the hum and chime
\* schedule unchanged.
MuteStep ==
  \/ ambienceOn' # ambienceOn
  \/ EffectsPending /\ deps.ambienceOn # ambienceOn

C13_MuteFrame ==
  [][ MuteStep =>
        UNCHANGED << started, phaseIndex, phaseDurationMs, remaining, tickTimer,
                     omStartTimeout, omInterval, fadeTimeout, fadeInterval,
                     fadeStep, chimeFires, humFires, ticks, phaseElapsed >> ]_vars

\* muted in a hum phase between two ticks, the effects of the toggle have run
C13_Witness ==
  /\ started /\ ~EffectsPending /\ ~ambienceOn /\ audio.muted
  /\ phaseIndex = 1 /\ humFires = 1 /\ fadeInterval # None /\ tickTimer < TickMs

\* C14: once the session is complete the tick interval is cancelled and the
\* tick callback is no longer invoked; phaseIndex and remaining stay at (4, 0)
\* until the user returns to the start screen.
C14_ClockStops ==
  /\ []((isComplete /\ ~EffectsPending) => tickTimer = None)
  /\ [][ (isComplete /\ isComplete') =>
           (updaterEvals' = 0 /\ phaseIndex' = NumPhases - 1 /\ remaining' = 0) ]_vars

\* C18: isComplete is false in every state of a run before the last phase has
\* counted its full duration down, also right after the index went from 3 to 4.
C18_NoEarlyComplete ==
  isComplete => ticks = NumPhases * TicksPerPhase

\* C16: a hum keeps volume 0.2 for the 7 units after it fired; then the
\* volume falls in 20 equal steps, one every 1/20 unit, and with the last step,
\* 8 units after the firing, the handle is at volume 0, paused and at position
\* 0; a fade timeout and a fade interval are never pending together.
FadeTick == fadeDuration \div fadeSteps

C16_HumFade ==
  /\ [](fadeTimeout # None =>
          /\ fadeInterval = None
          /\ omAudio.vol = initialVolume
          /\ sinceHum = fadeStart - fadeTimeout)
  /\ [](fadeInterval # None =>
          /\ fadeTimeout = None
          /\ fadeStep < fadeSteps
          /\ omAudio.vol * fadeSteps = initialVolume * (fadeSteps - fadeStep)
          /\ sinceHum = fadeStart + fadeStep * FadeTick + (FadeTick - fadeInterval))
  /\ [][ (fadeInterval # None /\ fadeInterval' = None /\ humFires' = humFires) =>
           /\ sinceHum + fadeInterval = fadeStart + fadeDuration
           /\ omAudio'.vol = 0 /\ omAudio'.paused /\ omAudio'.pos = 0 ]_vars

\* half-way through the fade of a hum that is playing in its own phase
C16_Witness ==
  /\ started /\ omOwnerActive /\ ~omAudio.paused
  /\ fadeInterval # None /\ fadeStep = 10 /\ omAudio.vol = 10 /\ sinceHum = 7500

\* C17: in phases 2 to 5 the n-th hum (n = 0, 1, ...) fires when 4 + 12n
\* units have passed since the phase's cycle anchor was set, so the sub-state
\* derived from the anchor at that moment is "exhale" with e = 4 units.
C17_HumOnExhale ==
  [][ humFires' = humFires + 1 =>
        /\ cycleElapsed' # None
        /\ cycleElapsed' = INHALE_MS + humFires * CYCLE_MS
        /\ JsRem(cycleElapsed', CYCLE_MS) = INHALE_MS
        /\ BreathTextAt(cycleElapsed') = "breathe out..." ]_vars

\* the second hum of phase 5 has just fired, 16 units after the anchor
C17_Witness ==
  /\ started /\ ~EffectsPending /\ phaseIndex = 4
  /\ humFires = 2 /\ sinceHum = 0 /\ cycleElapsed = 16000

\* C15: for every cycle anchor t0 and time t >= t0 the rendered text follows
\* e = (t - t0) mod 12000 ms: "breathe in..." when e < 4000 and "breathe out..."
\* when e >= 4000; in particular inhale at t0 + 3999, exhale at t0 + 4000 and
\* t0 + 5000, inhale again at t0 + 12000.
C15_BreathSubState ==
  (bpText # "none" /\ bpCycleTime # 0) =>
    LET e == (bpNow - bpCycleTime) % CYCLE_MS
    IN /\ bpNow >= bpCycleTime
       /\ e < INHALE_MS => bpText = "breathe in..."
       /\ e >= INHALE_MS => bpText = "breathe out..."
       /\ bpNow = bpCycleTime + 3999 => bpText = "breathe in..."
       /\ bpNow = bpCycleTime + 4000 => bpText = "breathe out..."
       /\ bpNow = bpCycleTime + 5000 => bpText = "breathe out..."
       /\ bpNow = bpCycleTime + 12000 => bpText = "breathe in..."

\* rendered exactly 4000 ms after an anchor: the first instant of "exhale"
C15_Witness ==
  /\ bpCycleTime = 500 /\ bpNow = 4500 /\ bpText = "breathe out..."

=============================================================================
